---- MODULE Spec2Model ----
(***************************************************************************)
(* Model of the pattern-scan-and-patch engine of clip_patcher_gui.py:      *)
(* find_wildcard_matches, find_exact_matches, backup_file, patch_file and  *)
(* the batch loop ClipPatcherApp._run_patching.                            *)
(*                                                                         *)
(* Bytes are integers 0..255 and a bytes object is a sequence of them.     *)
(* A str is a sequence of code points.  Offsets are 0-based as in the      *)
(* source, so the byte at offset i of data is data[i + 1].                 *)
(***************************************************************************)
EXTENDS Integers, Sequences, FiniteSets, TLC

\* ---------------------------------------------------------------- bounds
\* Scanning on its own (SpecMatch): buffer length, pattern length.
MaxBuf == 4
MaxScanPatLen == 2
\* One patch_file call (Spec, SpecCalls): file length, total number of
\* pattern characters over the pattern list, placeholder length, calls.
MaxFileLen == 2
MaxPatText == 2
MaxPhLen == 2
MaxCalls == 2
\* A batch (SpecBatch): number of files, length of each.
MaxFiles == 2
MaxBatchFileLen == 1

\* ------------------------------------------------------------- constants
NUL == 0
StarChar == 42
QuestionChar == 63
PrintableLo == 32
PrintableHi == 126
AsciiLimit == 128

\* ------------------------------------------------------------- alphabets
\* Bytes of the buffers: NUL (not printable), 'A' (65), 'a' (97).
ByteVals == {NUL, 65, 97}
\* Characters of scanned patterns: 'A', 'a', '*', '?', e-acute (233, not ASCII).
ScanPatChars == {65, 97, StarChar, QuestionChar, 233}
\* Characters of the patterns given to patch_file: 'a', '*', e-acute.
PatchPatChars == {97, StarChar, 233}
\* Characters of placeholder texts: 'X' (88), e-acute.
PhChars == {88, 233}

SeqsUpTo(S, lo, hi) == UNION {[1..n -> S] : n \in lo..hi}

\* ------------------------------------------------------ str/bytes helpers
\* str.encode("ascii", errors="ignore"): code points outside ASCII are dropped.
EncodeAscii(s) == SelectSeq(s, LAMBDA c : c < AsciiLimit)

\* bytes.decode("ascii", errors="ignore"): bytes outside ASCII are dropped.
DecodeAscii(bs) == SelectSeq(bs, LAMBDA b : b < AsciiLimit)

\* str.lower() / str.upper() on one code point of the model's alphabet.
LowerChar(c) ==
    IF c >= 65 /\ c <= 90 THEN c + 32
    ELSE IF c = 201 THEN 233 ELSE c

UpperChar(c) ==
    IF c >= 97 /\ c <= 122 THEN c - 32
    ELSE IF c = 233 THEN 201 ELSE c

Lower(s) == [j \in 1..Len(s) |-> LowerChar(s[j])]
Upper(s) == [j \in 1..Len(s) |-> UpperChar(s[j])]

\* "*" in pattern or "?" in pattern
IsWildcard(pattern) ==
    \E j \in 1..Len(pattern) : pattern[j] = StarChar \/ pattern[j] = QuestionChar

\* needle occurs in data at 0-based offset i
OccursAt(data, needle, i) ==
    /\ i >= 0
    /\ i + Len(needle) <= Len(data)
    /\ \A j \in 1..Len(needle) : data[i + j] = needle[j]

Min(S) == CHOOSE x \in S : \A y \in S : x <= y

\* bytes.find(needle, start): lowest offset >= start of an occurrence, else -1.
\* An empty needle is found at start itself as long as start <= len(data).
Find(data, needle, start) ==
    LET hits == {i \in start..(Len(data) - Len(needle)) : OccursAt(data, needle, i)}
    IN IF hits = {} THEN -1 ELSE Min(hits)

\* --------------------------------------------------- find_exact_matches
\* The step of the search loops: where the next search starts after a hit.
NextStartSkipMatch(idx, needle) == idx + (IF Len(needle) = 0 THEN 1 ELSE Len(needle))

NextStart(idx, needle) == idx + 1

\* while True: idx = data.find(needle, start) ... start = idx + 1
RECURSIVE FindLoop(_, _, _, _)
FindLoop(data, needle, matched_str, start) ==
    LET idx == Find(data, needle, start)
    IN IF idx = -1 THEN <<>>
       ELSE <<<<idx, matched_str, needle>>>>
            \o FindLoop(data, needle, matched_str, NextStart(idx, needle))

\* candidates = [pattern_bytes, lower, upper]; set(candidates) removes repeats.
Candidates(pattern) ==
    {EncodeAscii(pattern), EncodeAscii(Lower(pattern)), EncodeAscii(Upper(pattern))}

Perms(S) ==
    {s \in [1..Cardinality(S) -> S] : \A x \in S : \E j \in 1..Cardinality(S) : s[j] = x}

RECURSIVE SearchAll(_, _)
SearchAll(data, order) ==
    IF order = <<>> THEN <<>>
    ELSE FindLoop(data, Head(order), DecodeAscii(Head(order)), 0)
         \o SearchAll(data, Tail(order))

\* The set of lists find_exact_matches may return.  Case-insensitive search
\* iterates over a Python set, whose order is not fixed: every order is possible.
find_exact_matches(data, pattern, case_insensitive) ==
    IF case_insensitive
    THEN {SearchAll(data, order) : order \in Perms(Candidates(pattern))}
    ELSE {FindLoop(data, EncodeAscii(pattern), pattern, 0)}

\* ------------------------------------------------ find_wildcard_matches
IsPrintable(b) == PrintableLo <= b /\ b <= PrintableHi

\* The loop over enumerate(data) that collects (current_start, current_string).
RECURSIVE RunsLoop(_, _, _, _, _)
RunsLoop(data, i, current_start, current_string, ascii_strings) ==
    IF i >= Len(data)
    THEN IF current_string # <<>>
         THEN Append(ascii_strings, <<current_start, current_string>>)
         ELSE ascii_strings
    ELSE IF IsPrintable(data[i + 1])
         THEN RunsLoop(data, i + 1,
                       IF current_string = <<>> THEN i ELSE current_start,
                       Append(current_string, data[i + 1]), ascii_strings)
         ELSE IF current_string # <<>>
              THEN RunsLoop(data, i + 1, current_start, <<>>,
                            Append(ascii_strings, <<current_start, current_string>>))
              ELSE RunsLoop(data, i + 1, current_start, <<>>, ascii_strings)

AsciiStrings(data) == RunsLoop(data, 0, 0, <<>>, <<>>)

\* fnmatch.translate(pattern): '*' becomes '.*', '?' becomes '.', any other
\* character is escaped to stand for itself; the result is wrapped as
\* (?s:...)\Z, so the regex is anchored at the end of the subject.
TranslateChar(c) ==
    IF c = StarChar THEN <<"star">>
    ELSE IF c = QuestionChar THEN <<"any">>
    ELSE <<"lit", c>>

Translate(pattern) == [j \in 1..Len(pattern) |-> TranslateChar(pattern[j])]

\* Comparison of a literal regex character with a subject character.
CharMatches(c, d, ignorecase) ==
    IF ignorecase THEN LowerChar(c) = LowerChar(d) ELSE c = d

\* What the translated regex requires once all its tokens are consumed.
EndAnchorPrefix(s, si) == TRUE

EndAnchor(s, si) == si > Len(s)

\* pattern_regex.match(s): the tokens from ti on match s from position si on.
RECURSIVE RegexMatchFrom(_, _, _, _, _)
RegexMatchFrom(tokens, ti, s, si, ignorecase) ==
    IF ti > Len(tokens) THEN EndAnchor(s, si)
    ELSE LET t == tokens[ti]
         IN IF t[1] = "star"
            THEN \/ RegexMatchFrom(tokens, ti + 1, s, si, ignorecase)
                 \/ /\ si <= Len(s)
                    /\ RegexMatchFrom(tokens, ti, s, si + 1, ignorecase)
            ELSE IF t[1] = "any"
            THEN /\ si <= Len(s)
                 /\ RegexMatchFrom(tokens, ti + 1, s, si + 1, ignorecase)
            ELSE /\ si <= Len(s)
                 /\ CharMatches(t[2], s[si], ignorecase)
                 /\ RegexMatchFrom(tokens, ti + 1, s, si + 1, ignorecase)

RegexMatch(tokens, s, ignorecase) == RegexMatchFrom(tokens, 1, s, 1, ignorecase)

find_wildcard_matches(data, pattern, case_insensitive) ==
    LET regex == Translate(pattern)
        hit(r) == RegexMatch(regex, r[2], case_insensitive)
        found == SelectSeq(AsciiStrings(data), hit)
    IN [j \in 1..Len(found) |-> <<found[j][1], found[j][2], EncodeAscii(found[j][2])>>]

\* ----------------------------------------------------------- patch_file
\* for pattern in patterns: ... all_matches.extend([(m[0], m[1], m[2], pattern)])
TagMatches(matches, pattern) ==
    [j \in 1..Len(matches) |-> <<matches[j][1], matches[j][2], matches[j][3], pattern>>]

MatchesOf(data, pattern, case_insensitive) ==
    IF IsWildcard(pattern)
    THEN {TagMatches(find_wildcard_matches(data, pattern, case_insensitive), pattern)}
    ELSE {TagMatches(ms, pattern) : ms \in find_exact_matches(data, pattern, case_insensitive)}

\* The lists all_matches may hold after the loop over the patterns.
RECURSIVE ScanAll(_, _, _)
ScanAll(data, pats, case_insensitive) ==
    IF pats = <<>> THEN {<<>>}
    ELSE {first \o rest : first \in MatchesOf(data, Head(pats), case_insensitive),
                          rest \in ScanAll(data, Tail(pats), case_insensitive)}

\* Where a match goes in a list already sorted by descending offset.
InsertTiesFirst(sorted, m) ==
    LET n == Cardinality({j \in 1..Len(sorted) : sorted[j][1] > m[1]})
    IN SubSeq(sorted, 1, n) \o <<m>> \o SubSeq(sorted, n + 1, Len(sorted))

InsertDesc(sorted, m) ==
    LET n == Cardinality({j \in 1..Len(sorted) : sorted[j][1] >= m[1]})
    IN SubSeq(sorted, 1, n) \o <<m>> \o SubSeq(sorted, n + 1, Len(sorted))

\* all_matches.sort(key=lambda x: x[0], reverse=True): a stable sort.
RECURSIVE SortDesc(_)
SortDesc(ms) ==
    IF ms = <<>> THEN <<>>
    ELSE InsertDesc(SortDesc(SubSeq(ms, 1, Len(ms) - 1)), ms[Len(ms)])

Zeros(n) == [j \in 1..n |-> NUL]

\* placeholder * count
RECURSIVE Repeat(_, _)
Repeat(s, count) == IF count <= 0 THEN <<>> ELSE s \o Repeat(s, count - 1)

Take(s, n) == SubSeq(s, 1, IF n < Len(s) THEN n ELSE Len(s))

\* if len(repl) < len(matched_bytes): repl += b"\x00" * (...)
NoPad(repl, n) == repl

PadZeros(repl, n) == IF Len(repl) < n THEN repl \o Zeros(n - Len(repl)) ELSE repl

\* The bytes written over a match (mode "null" or "placeholder").
Replacement(matched_bytes, mode_, placeholder_) ==
    LET n == Len(matched_bytes)
    IN IF mode_ = "null" THEN Zeros(n)
       ELSE LET ph == Take(Repeat(placeholder_, (n \div Len(placeholder_)) + 1), n)
            IN Take(PadZeros(EncodeAscii(ph), n), n)

OverwriteShifted(buf, start_idx, n, repl) ==
    [j \in 1..Len(buf) |->
        IF start_idx + 1 < j /\ j <= start_idx + 1 + n
        THEN repl[j - start_idx - 1] ELSE buf[j]]

\* mm[start_idx : start_idx + n] = repl, for len(repl) = n
Overwrite(buf, start_idx, n, repl) ==
    [j \in 1..Len(buf) |->
        IF start_idx < j /\ j <= start_idx + n THEN repl[j - start_idx] ELSE buf[j]]

KnownModes == {"null", "placeholder"}

\* ----------------------------------------------------------------- state
VARIABLES
    sdata, spattern, sci, sresult, spc,      \* a scan on its own
    files,              \* the contents of the files, in the order they are processed
    backups,            \* per file: the copy in backup_dir, or NoBackup
    patterns, mode, placeholder, case_insensitive, backup_dir,  \* the arguments
    caller,             \* "lib": patch_file is called directly; "gui": by _run_patching
    cur,                \* the file patch_file is working on (1-based)
    pc,                 \* the control point
    calls,              \* number of patch_file calls made on the file (caller "lib")
    data, flat, all_matches, k, total_patches, log_entries,     \* patch_file's locals
    total_files_patched, total_patterns_patched, ui_log         \* _run_patching's

scanvars == <<sdata, spattern, sci, sresult, spc>>
argvars == <<patterns, mode, placeholder, case_insensitive, backup_dir, caller>>
localvars == <<data, flat, all_matches, k, total_patches, log_entries>>
batchvars == <<total_files_patched, total_patterns_patched, ui_log>>
vars == <<scanvars, files, backups, argvars, cur, pc, calls, localvars, batchvars>>

NoBackup == <<-1>>
\* placeholder="REMOVED"
DefaultPlaceholder == <<82, 69, 77, 79, 86, 69, 68>>

\* ----------------------------------------------------------------- inputs
Buffers == SeqsUpTo(ByteVals, 0, MaxBuf)
ScanPatterns == SeqsUpTo(ScanPatChars, 1, MaxScanPatLen)

FileContents == SeqsUpTo(ByteVals, 0, MaxFileLen)
BatchContents == SeqsUpTo(ByteVals, 0, MaxBatchFileLen)
PatchPatterns == SeqsUpTo(PatchPatChars, 1, MaxPatText)

RECURSIVE TextLen(_)
TextLen(pl) == IF pl = <<>> THEN 0 ELSE Len(Head(pl)) + TextLen(Tail(pl))

\* Non-empty lists of non-empty patterns (the caller drops empty lines).
PatternLists ==
    {pl \in SeqsUpTo(PatchPatterns, 1, MaxPatText) : TextLen(pl) <= MaxPatText}

Placeholders == SeqsUpTo(PhChars, 1, MaxPhLen)

ModeCfgs ==
    {<<"null", DefaultPlaceholder>>, <<"fill", DefaultPlaceholder>>}
    \cup {<<"placeholder", ph>> : ph \in Placeholders}

GuiModeCfgs == {c \in ModeCfgs : c[1] \in KnownModes}

ScanIdle ==
    /\ sdata = <<>> /\ spattern = <<>> /\ sci = FALSE /\ sresult = <<>> /\ spc = "off"

LocalsInit ==
    /\ data = <<>> /\ flat = <<>> /\ all_matches = <<>> /\ k = 0
    /\ total_patches = 0 /\ log_entries = <<>>

BatchInit ==
    /\ total_files_patched = 0 /\ total_patterns_patched = 0 /\ ui_log = <<>>

\* A direct call patch_file(file_path, patterns, mode, placeholder, backup_dir,
\* case_insensitive) on one file; backup_dir may be left at its default, None.
InitCalls ==
    /\ ScanIdle /\ LocalsInit /\ BatchInit
    /\ caller = "lib"
    /\ files \in {<<d>> : d \in FileContents}
    /\ backups = <<NoBackup>>
    /\ patterns \in PatternLists
    /\ \E c \in ModeCfgs : mode = c[1] /\ placeholder = c[2]
    /\ case_insensitive \in BOOLEAN
    /\ backup_dir \in BOOLEAN
    /\ cur = 1 /\ pc = "call" /\ calls = 1

\* A direct call that names a backup directory, as the repository's one caller
\* does (line 379).
Init ==
    /\ InitCalls
    /\ backup_dir = TRUE

\* _run_patching on a folder: mode comes from the two radio buttons, the
\* placeholder is never empty, backup_dir is always given.
InitBatch ==
    /\ ScanIdle /\ LocalsInit /\ BatchInit
    /\ caller = "gui"
    /\ files \in SeqsUpTo(BatchContents, 0, MaxFiles)
    /\ backups = [j \in 1..Len(files) |-> NoBackup]
    /\ patterns \in PatternLists
    /\ \E c \in GuiModeCfgs : mode = c[1] /\ placeholder = c[2]
    /\ case_insensitive \in BOOLEAN
    /\ backup_dir = TRUE
    /\ cur = 0 /\ pc = "run" /\ calls = 0

InitMatch ==
    /\ LocalsInit /\ BatchInit
    /\ caller = "scan" /\ files = <<>> /\ backups = <<>> /\ patterns = <<>>
    /\ mode = "null" /\ placeholder = DefaultPlaceholder
    /\ case_insensitive = FALSE /\ backup_dir = FALSE
    /\ cur = 0 /\ pc = "off" /\ calls = 0
    /\ sdata \in Buffers
    /\ spattern \in ScanPatterns
    /\ sci \in BOOLEAN
    /\ sresult = <<>>
    /\ spc = "input"

\* ---------------------------------------------------------------- actions
\* patch_file, lines 120-124: the backup is made first, when backup_dir is given.
\* backup_file copies the whole file (shutil.copy2) before it returns.
backup_file ==
    /\ pc = "call"
    /\ backups' = IF backup_dir THEN [backups EXCEPT ![cur] = files[cur]] ELSE backups
    /\ total_patches' = 0
    /\ log_entries' = <<>>
    /\ pc' = "open"
    /\ UNCHANGED <<scanvars, files, argvars, cur, calls, data, flat, all_matches, k, batchvars>>

\* open(file_path, "r+b") raises OSError (a read-only or vanished file).
OpenFails ==
    /\ pc = "open"
    /\ pc' = "raised"
    /\ UNCHANGED <<scanvars, files, backups, argvars, cur, calls, localvars, batchvars>>

\* Lines 126-142: read the file, collect the matches of every pattern, sort them,
\* and map the file when there is something to patch.  mmap.mmap raises
\* ValueError on an empty file.
ReadAndScan ==
    /\ pc = "open"
    /\ data' = files[cur]
    /\ \E fl \in ScanAll(files[cur], patterns, case_insensitive) :
          /\ flat' = fl
          /\ all_matches' = SortDesc(fl)
    /\ k' = 1
    /\ pc' = IF all_matches' = <<>> THEN "return"
             ELSE IF Len(files[cur]) = 0 THEN "raised"
             ELSE "apply"
    /\ UNCHANGED <<scanvars, files, backups, argvars, cur, calls, total_patches,
                   log_entries, batchvars>>

\* Lines 144-162, one iteration of the loop for a known mode.  A slice
\* assignment of the wrong size raises IndexError.
ApplyMatch ==
    /\ pc = "apply"
    /\ mode \in KnownModes
    /\ LET m == all_matches[k]
           repl == Replacement(m[3], mode, placeholder)
       IN IF Len(repl) # Len(m[3])
          THEN /\ pc' = "raised"
               /\ UNCHANGED <<files, total_patches, log_entries, k>>
          ELSE /\ files' = [files EXCEPT ![cur] = Overwrite(files[cur], m[1], Len(m[3]), repl)]
               /\ total_patches' = total_patches + 1
               /\ log_entries' = Append(log_entries, <<m[2], m[4], m[1]>>)
               /\ k' = k + 1
               /\ pc' = IF k = Len(all_matches) THEN "flush" ELSE "apply"
    /\ UNCHANGED <<scanvars, backups, argvars, cur, calls, data, flat, all_matches, batchvars>>

\* Lines 155-156: raise ValueError(f"Unknown mode: {mode}")
RaiseUnknownMode ==
    /\ pc = "apply"
    /\ mode \notin KnownModes
    /\ pc' = "raised"
    /\ UNCHANGED <<scanvars, files, backups, argvars, cur, calls, localvars, batchvars>>

\* Lines 164-167: mm.flush(); mm.close(); return total_patches, log_entries
FlushAndClose ==
    /\ pc = "flush"
    /\ pc' = "return"
    /\ UNCHANGED <<scanvars, files, backups, argvars, cur, calls, localvars, batchvars>>

\* The caller calls patch_file again with the same arguments.
CallAgain ==
    /\ pc = "return"
    /\ caller = "lib"
    /\ calls < MaxCalls
    /\ calls' = calls + 1
    /\ pc' = "call"
    /\ data' = <<>> /\ flat' = <<>> /\ all_matches' = <<>> /\ k' = 0
    /\ UNCHANGED <<scanvars, files, backups, argvars, cur, total_patches, log_entries,
                   batchvars>>

\* _run_patching, lines 345-368.
StartBatch ==
    /\ pc = "run"
    /\ IF files = <<>>
       THEN /\ ui_log' = Append(ui_log, <<"no_files", 0, 0>>)
            /\ pc' = "idle"
            /\ cur' = cur
       ELSE /\ ui_log' = Append(ui_log, <<"found", Len(files), 0>>)
            /\ pc' = "call"
            /\ cur' = 1
    /\ total_files_patched' = 0
    /\ total_patterns_patched' = 0
    /\ UNCHANGED <<scanvars, files, backups, argvars, calls, localvars>>

\* _run_patching, lines 383-404: patch_file returned; account for the file, then
\* go on with the next file or report the summary.
FileDone ==
    /\ pc = "return"
    /\ caller = "gui"
    /\ LET entry == IF total_patches > 0
                    THEN <<"patched", cur, total_patches>>
                    ELSE <<"no_matches", cur, 0>>
           tf == IF total_patches > 0 THEN total_files_patched + 1 ELSE total_files_patched
       IN /\ total_files_patched' = tf
          /\ total_patterns_patched' = total_patterns_patched + total_patches
          /\ IF cur < Len(files)
             THEN /\ ui_log' = Append(ui_log, entry)
                  /\ cur' = cur + 1
                  /\ pc' = "call"
             ELSE /\ ui_log' = ui_log \o <<entry, <<"done", tf, Len(files)>>>>
                  /\ cur' = cur
                  /\ pc' = "idle"
    /\ UNCHANGED <<scanvars, files, backups, argvars, calls, localvars>>

\* _run_patching, lines 406-410: an exception of patch_file leaves the loop; it is
\* logged and the button is reset.
BatchExcept ==
    /\ pc = "raised"
    /\ caller = "gui"
    /\ ui_log' = Append(ui_log, <<"error", cur, 0>>)
    /\ pc' = "idle"
    /\ UNCHANGED <<scanvars, files, backups, argvars, cur, calls, localvars,
                   total_files_patched, total_patterns_patched>>

\* find_exact_matches / find_wildcard_matches on one pattern, chosen as in
\* patch_file, lines 131-134.
ScanWildcard ==
    /\ spc = "input"
    /\ IsWildcard(spattern)
    /\ sresult' = find_wildcard_matches(sdata, spattern, sci)
    /\ spc' = "done"
    /\ UNCHANGED <<sdata, spattern, sci, files, backups, argvars, cur, pc, calls,
                   localvars, batchvars>>

ScanExact ==
    /\ spc = "input"
    /\ ~IsWildcard(spattern)
    /\ sresult' \in find_exact_matches(sdata, spattern, sci)
    /\ spc' = "done"
    /\ UNCHANGED <<sdata, spattern, sci, files, backups, argvars, cur, pc, calls,
                   localvars, batchvars>>

Next ==
    \/ backup_file
    \/ OpenFails
    \/ ReadAndScan
    \/ ApplyMatch
    \/ RaiseUnknownMode
    \/ FlushAndClose

NextCalls ==
    \/ backup_file
    \/ OpenFails
    \/ ReadAndScan
    \/ ApplyMatch
    \/ RaiseUnknownMode
    \/ FlushAndClose
    \/ CallAgain

NextBatch ==
    \/ StartBatch
    \/ backup_file
    \/ OpenFails
    \/ ReadAndScan
    \/ ApplyMatch
    \/ FlushAndClose
    \/ FileDone
    \/ BatchExcept

NextMatch == ScanWildcard \/ ScanExact

Spec == Init /\ [][Next]_vars
SpecCalls == InitCalls /\ [][NextCalls]_vars
SpecBatch == InitBatch /\ [][NextBatch]_vars
SpecMatch == InitMatch /\ [][NextMatch]_vars

\* ------------------------------------------------------------ properties
\* The buffer's bytes at offsets [i, i + n).
Slice(buf, i, n) == SubSeq(buf, i + 1, i + n)

Offsets(buf) == 0..Len(buf)

HitsAt(result, i) == {j \in 1..Len(result) : result[j][1] = i}

\* C8: a case-sensitive literal pattern with non-empty ASCII encoding p yields
\* exactly one match at every offset i with B[i .. i+len(p)) = p, overlapping
\* occurrences included, and no match anywhere else.
ExactFindsEveryOccurrence ==
    (spc = "done" /\ ~IsWildcard(spattern) /\ ~sci /\ EncodeAscii(spattern) # <<>>) =>
        LET p == EncodeAscii(spattern)
            occurs(i) == i + Len(p) <= Len(sdata) /\ Slice(sdata, i, Len(p)) = p
        IN /\ \A i \in Offsets(sdata) :
                 Cardinality(HitsAt(sresult, i)) = IF occurs(i) THEN 1 ELSE 0
           /\ \A j \in 1..Len(sresult) :
                 /\ sresult[j][1] \in Offsets(sdata)
                 /\ sresult[j][3] = p

\* C8's case: two matches of one literal pattern that overlap each other.
OverlappingOccurrencesFound ==
    /\ spc = "done" /\ ~IsWildcard(spattern) /\ ~sci
    /\ \E i, j \in 1..Len(sresult) :
          /\ sresult[i][1] < sresult[j][1]
          /\ sresult[j][1] < sresult[i][1] + Len(sresult[i][3])

\* C6: with case-insensitive enabled, a literal ASCII pattern yields exactly one
\* match for every occurrence of the pattern in any letter casing, and the
\* match's text is the casing found in the buffer.
CaseInsensitiveFindsEveryCasing ==
    (spc = "done" /\ ~IsWildcard(spattern) /\ sci /\ EncodeAscii(spattern) = spattern) =>
        LET n == Len(spattern)
            occurs(i) == i + n <= Len(sdata)
                         /\ Lower(Slice(sdata, i, n)) = Lower(spattern)
        IN \A i \in Offsets(sdata) :
              IF occurs(i)
              THEN /\ Cardinality(HitsAt(sresult, i)) = 1
                   /\ \A j \in HitsAt(sresult, i) : sresult[j][2] = Slice(sdata, i, n)
              ELSE HitsAt(sresult, i) = {}

\* Maximal runs of printable bytes, as <<start offset, length>>.
MaximalRuns(buf) ==
    {r \in (0..Len(buf)) \X (1..Len(buf)) :
        /\ r[1] + r[2] <= Len(buf)
        /\ \A j \in (r[1] + 1)..(r[1] + r[2]) : buf[j] >= 32 /\ buf[j] <= 126
        /\ (r[1] = 0 \/ buf[r[1]] < 32 \/ buf[r[1]] > 126)
        /\ (r[1] + r[2] = Len(buf) \/ buf[r[1] + r[2] + 1] < 32 \/ buf[r[1] + r[2] + 1] > 126)}

SameChar(c, d, fold) == c = d \/ (fold /\ LowerChar(c) = LowerChar(d))

\* The whole of text satisfies the glob pattern glob: text splits into one piece
\* per pattern character, any piece for '*', one character for '?', the
\* character itself otherwise.
GlobFull(glob, text, fold) ==
    \E cut \in [0..Len(glob) -> 0..Len(text)] :
        /\ cut[0] = 0
        /\ cut[Len(glob)] = Len(text)
        /\ \A j \in 1..Len(glob) :
              IF glob[j] = StarChar THEN cut[j] >= cut[j - 1]
              ELSE /\ cut[j] = cut[j - 1] + 1
                   /\ (glob[j] = QuestionChar \/ SameChar(glob[j], text[cut[j]], fold))

\* Some prefix of text satisfies the glob pattern.
GlobPrefix(glob, text, fold) ==
    \E n \in 0..Len(text) : GlobFull(glob, SubSeq(text, 1, n), fold)

\* The runs of the scanned buffer whose text is Accepted, given as a set of runs:
\* one match per accepted run, at the run's start, holding the whole run; no
\* match for any other run, and none outside the runs' starts.
WildcardResultIs(accepted) ==
    /\ \A r \in MaximalRuns(sdata) :
          LET text == Slice(sdata, r[1], r[2])
          IN IF r \in accepted
             THEN /\ Cardinality(HitsAt(sresult, r[1])) = 1
                  /\ \A j \in HitsAt(sresult, r[1]) :
                        sresult[j][2] = text /\ sresult[j][3] = text
             ELSE HitsAt(sresult, r[1]) = {}
    /\ \A j \in 1..Len(sresult) : \E r \in MaximalRuns(sdata) : r[1] = sresult[j][1]

\* C7 as stated: one match per maximal printable run of which a prefix satisfies
\* the glob pattern (whether or not the pattern ends in '*'), holding the whole
\* run at the run's start; no match for any other run.
WildcardMatchesRunPrefix ==
    (spc = "done" /\ IsWildcard(spattern)) =>
        WildcardResultIs({r \in MaximalRuns(sdata) :
                             GlobPrefix(spattern, Slice(sdata, r[1], r[2]), sci)})

\* C7 amended: one match per maximal printable run whose entire text satisfies
\* the glob pattern (a full-run match), holding the whole run at the run's
\* start; no match for any other run.
WildcardMatchesWholeRun ==
    (spc = "done" /\ IsWildcard(spattern)) =>
        WildcardResultIs({r \in MaximalRuns(sdata) :
                             GlobFull(spattern, Slice(sdata, r[1], r[2]), sci)})

\* C7's case: a wildcard pattern not ending in '*' that matches one run and
\* leaves out a run of which only a proper prefix satisfies it.
WildcardSkipsPrefixOnlyRun ==
    /\ spc = "done" /\ IsWildcard(spattern)
    /\ spattern[Len(spattern)] # StarChar
    /\ sresult # <<>>
    /\ \E r \in MaximalRuns(sdata) :
          /\ HitsAt(sresult, r[1]) = {}
          /\ GlobPrefix(spattern, Slice(sdata, r[1], r[2]), sci)

\* Indices of the matches of all_matches whose range holds the byte at offset off.
Covering(off) ==
    {j \in 1..Len(all_matches) :
        all_matches[j][1] <= off /\ off < all_matches[j][1] + Len(all_matches[j][3])}

Max(S) == CHOOSE x \in S : \A y \in S : y <= x

\* C1: no byte of the file is overwritten while no completed backup of its
\* original contents exists.
BackupBeforeOverwrite ==
    (/\ pc \in {"apply", "flush", "return", "raised"}
     /\ \E j \in 1..Len(log_entries) : Len(all_matches[j][3]) > 0)
        => backups[cur] = data

\* C2: in null mode and in placeholder mode the replacement of every match has
\* exactly len(matched_bytes) bytes, and the file keeps its length.
ReplacementKeepsLength ==
    (caller = "lib" /\ mode \in KnownModes /\ pc \in {"apply", "flush", "return"}) =>
        /\ \A j \in 1..Len(all_matches) :
              Len(Replacement(all_matches[j][3], mode, placeholder)) = Len(all_matches[j][3])
        /\ Len(files[cur]) = Len(data)

\* C2's case: a placeholder with a non-ASCII character has been written over a
\* match longer than the placeholder's ASCII part.
PaddedPlaceholderWritten ==
    /\ pc = "return" /\ mode = "placeholder" /\ total_patches > 0
    /\ \E j \in 1..Len(placeholder) : placeholder[j] >= AsciiLimit
    /\ \E j \in 1..Len(all_matches) : Len(all_matches[j][3]) > Len(EncodeAscii(placeholder))
    /\ files[cur] # data

\* C3: after patch_file in null mode every byte inside the range of some match
\* is zero and every byte inside no match range has the value it had before.
NullFillZeroesMatchesOnly ==
    (caller = "lib" /\ pc = "return" /\ mode = "null") =>
        /\ Len(files[cur]) = Len(data)
        /\ \A j \in 1..Len(data) :
              files[cur][j] = IF Covering(j - 1) # {} THEN NUL ELSE data[j]

\* C3's case: a null-mode patch that zeroed a match and left a printable byte
\* outside every match.
NullFillLeftOtherBytes ==
    /\ pc = "return" /\ mode = "null" /\ total_patches > 0
    /\ files[cur] # data
    /\ \E j \in 1..Len(data) : Covering(j - 1) = {} /\ data[j] # NUL

\* C5: a mode that is neither 'null' nor 'placeholder' makes patch_file fail with
\* an error, and the file's bytes stay as they were.
UnknownModeFails ==
    (caller = "lib" /\ mode \notin KnownModes) =>
        /\ pc # "return"
        /\ (k >= 1 => files[cur] = data)

\* C9: after a null-mode patch with a single pattern, a second patch_file call
\* with the same arguments finds no match, reports 0 patches and changes no byte.
SecondNullPatchFindsNothing ==
    (calls >= 2 /\ mode = "null" /\ Len(patterns) = 1 /\ k >= 1) =>
        /\ all_matches = <<>>
        /\ total_patches = 0
        /\ files[cur] = data

\* C10: the matches of all patterns are applied in descending offset order,
\* equal offsets in the order the patterns produced them, none is dropped, and
\* a byte covered by several matches ends with the replacement byte of the last
\* of them in that order.
AppliedInDescendingStableOrder ==
    caller = "lib" =>
        /\ Len(all_matches) = Len(flat)
        /\ \A j \in 1..(Len(all_matches) - 1) : all_matches[j][1] >= all_matches[j + 1][1]
        /\ \A o \in Offsets(data) :
              SelectSeq(all_matches, LAMBDA m : m[1] = o) = SelectSeq(flat, LAMBDA m : m[1] = o)
        /\ Len(log_entries) <= Len(all_matches)
        /\ \A j \in 1..Len(log_entries) :
              log_entries[j] = <<all_matches[j][2], all_matches[j][4], all_matches[j][1]>>
        /\ (pc = "return" /\ mode \in KnownModes) =>
              /\ Len(log_entries) = Len(all_matches)
              /\ \A j \in 1..Len(data) :
                    files[cur][j] =
                        IF Covering(j - 1) = {} THEN data[j]
                        ELSE LET m == all_matches[Max(Covering(j - 1))]
                             IN Replacement(m[3], mode, placeholder)[j - m[1]]

\* C10's case: a finished placeholder patch with two different matches at one
\* offset and a byte on which an earlier and a later match wrote different values.
OverlapAndTieApplied ==
    /\ pc = "return" /\ mode = "placeholder" /\ total_patches = Len(all_matches)
    /\ \E i, j \in 1..Len(all_matches) :
          i < j /\ all_matches[i][1] = all_matches[j][1] /\ all_matches[i] # all_matches[j]
    /\ \E off \in 0..(Len(data) - 1) : \E i, j \in Covering(off) :
          /\ i < j
          /\ Replacement(all_matches[i][3], mode, placeholder)[off + 1 - all_matches[i][1]]
             # Replacement(all_matches[j][3], mode, placeholder)[off + 1 - all_matches[j][1]]

\* C4: when patch_file fails on one file of a batch, the failure is reported and
\* every remaining file of the batch is still processed.
BatchContinuesAfterFailure ==
    (caller = "gui" /\ pc = "idle") =>
        \A f \in 1..Len(files) :
            \E j \in 1..Len(ui_log) :
                ui_log[j][1] \in {"patched", "no_matches", "error"} /\ ui_log[j][2] = f

\* The part of C9 the code does satisfy: the same, for a pattern whose ASCII
\* encoding is not empty.
SecondNullPatchFindsNothingOfEncodable ==
    (calls >= 2 /\ mode = "null" /\ Len(patterns) = 1 /\ k >= 1 /\ EncodeAscii(patterns[1]) # <<>>) =>
        /\ all_matches = <<>>
        /\ total_patches = 0
        /\ files[cur] = data
====
